---- MODULE Spec2Model ----
(***************************************************************************)
(* Colour diffusion / fluid flow simulation: Canvas (simulation/canvas.py), *)
(* DiffusionSimulator (simulation/diffusion.py), FluidFlowSimulator         *)
(* (simulation/fluid_flow.py) and the brush strokes of the Visualizer       *)
(* (visualization/visualizer.py).                                           *)
(*                                                                         *)
(* Numbers.  The arrays of the program hold float32 values.  The model      *)
(* computes with exact rationals <<n, d>> (d > 0, lowest terms): every sum  *)
(* and product is the one the code writes, without the rounding of the      *)
(* float format.  An array of shape (height, width) is a function on the    *)
(* pairs <<y, x>>, indexed as numpy indexes it: a[y, x].                    *)
(***************************************************************************)
EXTENDS Integers, Sequences, FiniteSets, TLC

VARIABLES
    width, height,              \* Canvas.width, Canvas.height
    red, green, blue,           \* Canvas colour channels
    barriers,                   \* Canvas.barriers
    diffusion_rates,            \* DiffusionSimulator.diffusion_rates (a dict)
    color_decay,                \* DiffusionSimulator.color_decay
    mixing_strength,            \* DiffusionSimulator.mixing_strength
    mixing_kernel,              \* DiffusionSimulator.mixing_kernel
    diffusion_rate,             \* the attribute diffusion_rate simulation_step sets on the
                                \* DiffusionSimulator; <<>> while it does not exist
    viscosity, diffusion, gravity,  \* FluidFlowSimulator parameters
    u, v,                       \* FluidFlowSimulator velocity field
    brush_size,                 \* Visualizer.brush_size
    image,                      \* the array get_color_image returned last
    raised,                     \* the exception that ended the program, or "none"
    op,                         \* the operation that ran last: its name, where its (x, y) lay, its dt
    nOps                        \* number of operations run so far

vars == <<width, height, red, green, blue, barriers, diffusion_rates, color_decay,
          mixing_strength, mixing_kernel, diffusion_rate, viscosity, diffusion, gravity, u, v,
          brush_size, image, raised, op, nOps>>

canvasVars == <<width, height, red, green, blue, barriers>>
diffusionVars == <<diffusion_rates, color_decay, mixing_strength, mixing_kernel, diffusion_rate>>
flowVars == <<viscosity, diffusion, gravity, u, v>>

----------------------------------------------------------------------------
(* Bounds *)

\* Longest sequence of operations explored after construction.
MaxOps == 3

----------------------------------------------------------------------------
(* Exact rational arithmetic *)

Abs(n) == IF n < 0 THEN -n ELSE n

RECURSIVE GCD(_, _)
GCD(a, b) == IF b = 0 THEN a ELSE GCD(b, a % b)

Norm(n, d) == LET g == GCD(Abs(n), d) IN <<n \div g, d \div g>>

Q(n, d) == Norm(n, d)
Zero == <<0, 1>>
One == <<1, 1>>
R(i) == <<i, 1>>

RAdd(a, b) ==
    IF a[1] = 0 THEN b
    ELSE IF b[1] = 0 THEN a
    ELSE LET g == GCD(a[2], b[2])
             l == (a[2] \div g) * b[2]
         IN Norm(a[1] * (l \div a[2]) + b[1] * (l \div b[2]), l)

RNeg(a) == <<-a[1], a[2]>>
RSub(a, b) == RAdd(a, RNeg(b))

RMul(a, b) ==
    IF a[1] = 0 \/ b[1] = 0 THEN Zero
    ELSE LET g1 == GCD(Abs(a[1]), b[2])
             g2 == GCD(Abs(b[1]), a[2])
         IN <<(a[1] \div g1) * (b[1] \div g2), (a[2] \div g2) * (b[2] \div g1)>>

RLe(a, b) == a[1] * b[2] <= b[1] * a[2]
RLt(a, b) == a[1] * b[2] < b[1] * a[2]

\* np.floor of a scalar, as an integer
RFloor(a) == a[1] \div a[2]

\* np.clip of a scalar
RClip(a, lo, hi) == IF RLt(a, lo) THEN lo ELSE IF RLt(hi, a) THEN hi ELSE a

----------------------------------------------------------------------------
(* Arrays *)

Channels == <<"red", "green", "blue">>
ChannelSet == {"red", "green", "blue"}

Cells(w, h) == (0 .. h - 1) \X (0 .. w - 1)

\* np.zeros((height, width))
zeros(w, h) == [c \in Cells(w, h) |-> Zero]

\* np.clip(a, lo, hi) on an array
np_clip(a, lo, hi) == [c \in DOMAIN a |-> RClip(a[c], lo, hi)]

\* index of the sample scipy reads for position i of an axis of length n
\* under mode="reflect": (d c b a | a b c d | d c b a)
\* the index mirrored about the edge cell instead (mode="mirror")
reflect_mirror(i, n) == IF i < 0 THEN -i ELSE IF i >= n THEN 2 * n - 2 - i ELSE i

reflect(i, n) == IF i < 0 THEN -i - 1 ELSE IF i >= n THEN 2 * n - 1 - i ELSE i

in_array(y, x, w, h) == y \in 0 .. h - 1 /\ x \in 0 .. w - 1

\* the convolution with mode="constant": zero outside the array
convolve_constant(data, kernel, w, h) ==
    [c \in Cells(w, h) |->
        LET at(y, x) == IF in_array(y, x, w, h) THEN data[<<y, x>>] ELSE Zero
            term(i, j) == RMul(kernel[i + 1][j + 1], at(c[1] + 1 - i, c[2] + 1 - j))
            row(i) == RAdd(RAdd(term(i, 0), term(i, 1)), term(i, 2))
        IN RAdd(RAdd(row(0), row(1)), row(2))]

\* scipy.ndimage.convolve(data, kernel, mode="reflect") with a 3x3 kernel
\* (a tuple of three rows): out[y, x] = sum_ij kernel[i][j] * data[y+1-i, x+1-j]
convolve(data, kernel, w, h) ==
    [c \in Cells(w, h) |->
        LET term(i, j) == RMul(kernel[i + 1][j + 1],
                               data[<<reflect(c[1] + 1 - i, h), reflect(c[2] + 1 - j, w)>>])
            row(i) == RAdd(RAdd(term(i, 0), term(i, 1)), term(i, 2))
        IN RAdd(RAdd(row(0), row(1)), row(2))]

\* [[0, 1, 0], [1, -4, 1], [0, 1, 0]]
laplacian_kernel == << <<Zero, One, Zero>>, <<One, R(-4), One>>, <<Zero, One, Zero>> >>


----------------------------------------------------------------------------
(* Canvas (simulation/canvas.py) *)

\* the guard without its lower bounds
in_bounds_upper_only(x, y, w, h) == x < w /\ y < h

\* the guard of add_color_source and add_barrier
in_bounds(x, y, w, h) == 0 <= x /\ x < w /\ 0 <= y /\ y < h

\* the cell a[y, x] names: numpy counts a negative index from the end
np_index(y, x, w, h) == <<IF y < 0 THEN y + h ELSE y, IF x < 0 THEN x + w ELSE x>>

\* one channel after add_color_source: self.<channel>[y, x] += amount
add_color_source_channel(data, x, y, amount, w, h) ==
    IF in_bounds(x, y, w, h)
    THEN [data EXCEPT ![np_index(y, x, w, h)] = RAdd(@, amount)]
    ELSE data

\* barriers after add_barrier
add_barrier_mask(mask, x, y, w, h) ==
    IF in_bounds(x, y, w, h)
    THEN [mask EXCEPT ![np_index(y, x, w, h)] = One]
    ELSE mask

\* the value rounded to the nearest integer instead
to_uint8_rounded(value) ==
    RFloor(RAdd(RClip(RMul(value, R(255)), Zero, R(255)), Q(1, 2)))

\* one channel value of get_color_image: np.clip(value * 255, 0, 255).astype(np.uint8)
\* (the conversion of a float in [0, 255] to uint8 drops the fraction)
to_uint8(value) == RFloor(RClip(RMul(value, R(255)), Zero, R(255)))

get_color_image_array(r, g, b) ==
    [c \in DOMAIN r |-> <<to_uint8(r[c]), to_uint8(g[c]), to_uint8(b[c])>>]

----------------------------------------------------------------------------
(* DiffusionSimulator (simulation/diffusion.py) *)

\* the constructor's default diffusion rates
default_diffusion_rates == [c \in ChannelSet |-> Q(1, 10)]

\* the mixing kernel the constructor installs
init_mixing_kernel ==
    << <<Zero, Q(1, 20), Zero>>, <<Q(1, 20), Q(4, 5), Q(1, 20)>>, <<Zero, Q(1, 20), Zero>> >>

\* the mixing kernel set_mixing_strength installs
strength_mixing_kernel(s) ==
    << <<Zero, s, Zero>>, <<s, RSub(One, RMul(R(4), s)), s>>, <<Zero, s, Zero>> >>

\* the body of step's loop for one channel
diffusion_channel(data, rate, kernel, decay, w, h) ==
    LET laplacian == convolve(data, laplacian_kernel, w, h)
        new_data == [c \in Cells(w, h) |-> RAdd(data[c], RMul(rate, laplacian[c]))]
        mixed_data == convolve(new_data, kernel, w, h)
        decayed_data == [c \in Cells(w, h) |-> RMul(mixed_data[c], RSub(One, decay))]
    IN np_clip(decayed_data, Zero, One)

\* the dict after set_diffusion_rates(arg)
set_diffusion_rates_dict(rates, arg) ==
    [c \in DOMAIN rates \cup (DOMAIN arg \cap ChannelSet) |->
        IF c \in DOMAIN arg \cap ChannelSet THEN arg[c] ELSE rates[c]]

----------------------------------------------------------------------------
(* FluidFlowSimulator (simulation/fluid_flow.py) *)

IntClip(i, lo, hi) == IF i < lo THEN lo ELSE IF i > hi THEN hi ELSE i

\* bilinear_interpolate(d, X, Y) at one position (X, Y)
bilinear_interpolate(d, X, Y, w, h) ==
    LET x0 == RFloor(X)
        y0 == RFloor(Y)
        x1 == IntClip(x0 + 1, 0, w - 1)
        y1 == IntClip(y0 + 1, 0, h - 1)
        Ia == d[np_index(y0, x0, w, h)]
        Ib == d[np_index(y1, x0, w, h)]
        Ic == d[np_index(y0, x1, w, h)]
        Id == d[np_index(y1, x1, w, h)]
        wa == RMul(RSub(R(x1), X), RSub(R(y1), Y))
        wb == RMul(RSub(R(x1), X), RSub(Y, R(y0)))
        wc == RMul(RSub(X, R(x0)), RSub(R(y1), Y))
        wd == RMul(RSub(X, R(x0)), RSub(Y, R(y0)))
    IN RAdd(RAdd(RAdd(RMul(wa, Ia), RMul(wb, Ib)), RMul(wc, Ic)), RMul(wd, Id))

\* the positions traced forward instead of backward
advect_forward(d_prev, uu, vv, dt, w, h) ==
    [c \in Cells(w, h) |->
        LET X_prev == RClip(RAdd(R(c[2]), RMul(uu[c], dt)), Zero, R(w - 1))
            Y_prev == RClip(RAdd(R(c[1]), RMul(vv[c], dt)), Zero, R(h - 1))
        IN bilinear_interpolate(d_prev, X_prev, Y_prev, w, h)]

\* the array advect writes into d: d_prev sampled at the clamped back-traced positions
advect(d_prev, uu, vv, dt, w, h) ==
    [c \in Cells(w, h) |->
        LET X_prev == RClip(RSub(R(c[2]), RMul(uu[c], dt)), Zero, R(w - 1))
            Y_prev == RClip(RSub(R(c[1]), RMul(vv[c], dt)), Zero, R(h - 1))
        IN bilinear_interpolate(d_prev, X_prev, Y_prev, w, h)]

\* field += diffusion * laplacian(field) - viscosity * field
velocity_update(field, diff, visc, w, h) ==
    LET lap == convolve(field, laplacian_kernel, w, h)
    IN [c \in Cells(w, h) |->
            RAdd(field[c], RSub(RMul(diff, lap[c]), RMul(visc, field[c])))]

\* field *= 1 - barriers
apply_barriers(field, mask) ==
    [c \in DOMAIN field |-> RMul(field[c], RSub(One, mask[c]))]

\* self.u at the end of step
step_u(uu, mask, diff, visc, w, h) ==
    apply_barriers(velocity_update(uu, diff, visc, w, h), mask)

\* the barrier mask applied before gravity is added
step_v_gravity_last(vv, mask, diff, visc, grav, w, h) ==
    LET v1 == apply_barriers(velocity_update(vv, diff, visc, w, h), mask)
    IN [c \in Cells(w, h) |-> RAdd(v1[c], grav)]

\* self.v at the end of step: velocity update, then gravity, then the barrier mask
step_v(vv, mask, diff, visc, grav, w, h) ==
    LET v1 == velocity_update(vv, diff, visc, w, h)
        v2 == [c \in Cells(w, h) |-> RAdd(v1[c], grav)]
    IN apply_barriers(v2, mask)

\* the advected channel left unclipped
step_channel_unclipped(d_prev, uu, vv, dt, w, h) == advect(d_prev, uu, vv, dt, w, h)

\* a colour channel at the end of step: advected along the new velocity, then clipped
step_channel(d_prev, uu, vv, dt, w, h) ==
    np_clip(advect(d_prev, uu, vv, dt, w, h), Zero, One)


----------------------------------------------------------------------------
(* Visualizer (visualization/visualizer.py) *)

\* the brush colour and intensity the Visualizer is constructed with
brush_color == <<One, Zero, Zero>>
brush_intensity == One

\* the canvas cells a stroke of radius bs centred at (x, y) touches
stroke_cells(x, y, bs, w, h) ==
    {c \in Cells(w, h) :
        \E dx \in -bs .. bs, dy \in -bs .. bs :
            /\ dx * dx + dy * dy <= bs * bs
            /\ c = <<y + dy, x + dx>>}

\* the stroke without its final np.clip
add_brush_stroke_channel_unclipped(data, x, y, bs, amount, w, h) ==
    LET touched == stroke_cells(x, y, bs, w, h)
    IN [c \in Cells(w, h) |-> IF c \in touched THEN RAdd(data[c], amount) ELSE data[c]]

\* one channel after add_brush_stroke: the additions, then np.clip(channel, 0, 1)
add_brush_stroke_channel(data, x, y, bs, amount, w, h) ==
    LET touched == stroke_cells(x, y, bs, w, h)
    IN np_clip([c \in Cells(w, h) |-> IF c \in touched THEN RAdd(data[c], amount) ELSE data[c]],
               Zero, One)

----------------------------------------------------------------------------
(* Inputs of the operations *)

\* canvas shapes <<width, height>>
Sizes == {<<3, 2>>}

\* (colour, intensity) arguments of add_color_source
Sources == { <<<<One, Q(1, 4), Zero>>, R(2)>>,
             <<<<Zero, Zero, One>>, Q(-1, 2)>> }

\* dt arguments of FluidFlowSimulator.step
Dts == {One, Q(1, 2)}

\* constructor arguments of DiffusionSimulator: diffusion_rates is <<>> for None,
\* <<dict>> for a dict
DiffusionArgs ==
    { [diffusion_rates |-> <<>>, color_decay |-> Zero, mixing_strength |-> Zero],
      [diffusion_rates |-> << [c \in {"red"} |-> Q(1, 4)] >>,
       color_decay |-> Q(1, 2), mixing_strength |-> Q(1, 4)] }

\* constructor arguments of FluidFlowSimulator
FlowArgs ==
    { [viscosity |-> Zero, diffusion |-> Zero, gravity |-> Zero],
      [viscosity |-> Q(1, 2), diffusion |-> Q(1, 4), gravity |-> One] }

\* arguments of the setters
RateDicts == { [c \in {"green", "blue"} |-> Q(1, 2)] }
Decays == { One }
Strengths == { Q(1, 8) }
Viscosities == { R(-1) }
VelocityDiffusions == { Q(1, 2) }
Gravities == { Q(-1, 2) }
BrushSizes == { 1 }

\* positions of the diffusion, gravity and viscosity sliders
Sliders == { [diffusion |-> Q(1, 2), gravity |-> Q(1, 2), viscosity |-> Q(1, 4)] }

----------------------------------------------------------------------------
(* Construction *)

\* the place of an operation that takes no (x, y)
NoPlace == "-"

\* the state with canvas shape size, colour channels r, g, b, velocity uu, vv, a
\* DiffusionSimulator constructed with da and a FluidFlowSimulator constructed with fa
Constructed(size, r, g, b, uu, vv, da, fa) ==
    /\ width = size[1]
    /\ height = size[2]
    /\ red = r
    /\ green = g
    /\ blue = b
    /\ barriers = zeros(size[1], size[2])
    /\ diffusion_rates = IF da.diffusion_rates = <<>> THEN default_diffusion_rates
                         ELSE da.diffusion_rates[1]
    /\ color_decay = da.color_decay
    /\ mixing_strength = da.mixing_strength
    /\ mixing_kernel = init_mixing_kernel
    /\ diffusion_rate = <<>>
    /\ viscosity = fa.viscosity
    /\ diffusion = fa.diffusion
    /\ gravity = fa.gravity
    /\ u = uu
    /\ v = vv
    /\ brush_size = 5
    /\ image = [c \in {} |-> <<0, 0, 0>>]
    /\ raised = "none"
    /\ op = [name |-> "init", at |-> NoPlace, dt |-> Zero]
    /\ nOps = 0

\* Canvas(width, height), DiffusionSimulator(canvas, **da), FluidFlowSimulator(canvas, **fa),
\* Visualizer(canvas): all arrays np.zeros
Construct(size, da, fa) ==
    LET z == zeros(size[1], size[2])
    IN Constructed(size, z, z, z, z, z, da, fa)

Init == \E size \in Sizes, da \in DiffusionArgs, fa \in FlowArgs : Construct(size, da, fa)

----------------------------------------------------------------------------
(* Operations *)

\* every operation runs in a program that has not raised
Running == raised = "none" /\ nOps < MaxOps

\* where (x, y) lies: on the canvas, off it with a negative coordinate, or off it beyond
\* the last column or row
Where(x, y) ==
    IF x \in 0 .. width - 1 /\ y \in 0 .. height - 1 THEN "inside"
    ELSE IF x < 0 \/ y < 0 THEN "negative"
    ELSE "beyond"

Done(name, at, dt) == op' = [name |-> name, at |-> at, dt |-> dt] /\ nOps' = nOps + 1

\* a clear that resets the barrier mask as well
clear_resets_barriers ==
    /\ Running
    /\ red' = [c \in DOMAIN red |-> Zero]
    /\ green' = [c \in DOMAIN green |-> Zero]
    /\ blue' = [c \in DOMAIN blue |-> Zero]
    /\ barriers' = [c \in DOMAIN barriers |-> Zero]
    /\ op' = [name |-> "clear", at |-> NoPlace, dt |-> Zero]
    /\ nOps' = nOps + 1
    /\ UNCHANGED <<width, height, diffusionVars, flowVars, brush_size, image, raised>>

clear ==
    /\ Running
    /\ red' = [c \in DOMAIN red |-> Zero]
    /\ green' = [c \in DOMAIN green |-> Zero]
    /\ blue' = [c \in DOMAIN blue |-> Zero]
    /\ Done("clear", NoPlace, Zero)
    /\ UNCHANGED <<width, height, barriers, diffusionVars, flowVars, brush_size, image, raised>>

add_color_source(x, y, color, intensity) ==
    /\ Running
    /\ red' = add_color_source_channel(red, x, y, RMul(color[1], intensity), width, height)
    /\ green' = add_color_source_channel(green, x, y, RMul(color[2], intensity), width, height)
    /\ blue' = add_color_source_channel(blue, x, y, RMul(color[3], intensity), width, height)
    /\ Done("add_color_source", Where(x, y), Zero)
    /\ UNCHANGED <<width, height, barriers, diffusionVars, flowVars, brush_size, image, raised>>

add_barrier(x, y) ==
    /\ Running
    /\ barriers' = add_barrier_mask(barriers, x, y, width, height)
    /\ Done("add_barrier", Where(x, y), Zero)
    /\ UNCHANGED <<width, height, red, green, blue, diffusionVars, flowVars, brush_size, image, raised>>

get_color_image ==
    /\ Running
    /\ image' = get_color_image_array(red, green, blue)
    /\ Done("get_color_image", NoPlace, Zero)
    /\ UNCHANGED <<canvasVars, diffusionVars, flowVars, brush_size, raised>>

\* DiffusionSimulator.step: the channels in order; the lookup self.diffusion_rates[channel]
\* raises KeyError at the first channel the dict does not name, the channels before it
\* already rewritten
DiffusionSimulator_step ==
    LET has(ch) == ch \in DOMAIN diffusion_rates
        new(data, ch) == diffusion_channel(data, diffusion_rates[ch], mixing_kernel,
                                           color_decay, width, height)
    IN
    /\ Running
    /\ red' = IF has("red") THEN new(red, "red") ELSE red
    /\ green' = IF has("red") /\ has("green") THEN new(green, "green") ELSE green
    /\ blue' = IF has("red") /\ has("green") /\ has("blue") THEN new(blue, "blue") ELSE blue
    /\ raised' = IF has("red") /\ has("green") /\ has("blue") THEN "none" ELSE "KeyError"
    /\ Done("diffusion_step", NoPlace, Zero)
    /\ UNCHANGED <<width, height, barriers, diffusionVars, flowVars, brush_size, image>>

set_diffusion_rates(arg) ==
    /\ Running
    /\ diffusion_rates' = set_diffusion_rates_dict(diffusion_rates, arg)
    /\ Done("set_diffusion_rates", NoPlace, Zero)
    /\ UNCHANGED <<canvasVars, color_decay, mixing_strength, mixing_kernel, diffusion_rate,
                   flowVars, brush_size, image, raised>>

set_color_decay(decay) ==
    /\ Running
    /\ color_decay' = decay
    /\ Done("set_color_decay", NoPlace, Zero)
    /\ UNCHANGED <<canvasVars, diffusion_rates, mixing_strength, mixing_kernel,
                   diffusion_rate, flowVars, brush_size, image, raised>>

set_mixing_strength(strength) ==
    /\ Running
    /\ mixing_strength' = strength
    /\ mixing_kernel' = strength_mixing_kernel(strength)
    /\ Done("set_mixing_strength", NoPlace, Zero)
    /\ UNCHANGED <<canvasVars, diffusion_rates, color_decay, diffusion_rate, flowVars,
                   brush_size, image, raised>>

\* a flow step that adds gravity to the horizontal component as well
FluidFlowSimulator_step_gravity_on_u(dt) ==
    /\ Running
    /\ u' = step_v(u, barriers, diffusion, viscosity, gravity, width, height)
    /\ v' = step_v(v, barriers, diffusion, viscosity, gravity, width, height)
    /\ red' = step_channel(red, u', v', dt, width, height)
    /\ green' = step_channel(green, u', v', dt, width, height)
    /\ blue' = step_channel(blue, u', v', dt, width, height)
    /\ op' = [name |-> "flow_step", at |-> NoPlace, dt |-> dt]
    /\ nOps' = nOps + 1
    /\ UNCHANGED <<width, height, barriers, diffusionVars, viscosity, diffusion, gravity,
                   brush_size, image, raised>>

\* FluidFlowSimulator.step(dt)
FluidFlowSimulator_step(dt) ==
    /\ Running
    /\ u' = step_u(u, barriers, diffusion, viscosity, width, height)
    /\ v' = step_v(v, barriers, diffusion, viscosity, gravity, width, height)
    /\ red' = step_channel(red, u', v', dt, width, height)
    /\ green' = step_channel(green, u', v', dt, width, height)
    /\ blue' = step_channel(blue, u', v', dt, width, height)
    /\ Done("flow_step", NoPlace, dt)
    /\ UNCHANGED <<width, height, barriers, diffusionVars, viscosity, diffusion, gravity,
                   brush_size, image, raised>>

\* assignments to the attributes viscosity, diffusion and gravity
set_viscosity(value) ==
    /\ Running
    /\ viscosity' = value
    /\ Done("set_viscosity", NoPlace, Zero)
    /\ UNCHANGED <<canvasVars, diffusionVars, diffusion, gravity, u, v, brush_size, image, raised>>

set_diffusion(value) ==
    /\ Running
    /\ diffusion' = value
    /\ Done("set_diffusion", NoPlace, Zero)
    /\ UNCHANGED <<canvasVars, diffusionVars, viscosity, gravity, u, v, brush_size, image, raised>>

set_gravity(value) ==
    /\ Running
    /\ gravity' = value
    /\ Done("set_gravity", NoPlace, Zero)
    /\ UNCHANGED <<canvasVars, diffusionVars, viscosity, diffusion, u, v, brush_size, image, raised>>

\* the brush size slider moved
set_brush_size(value) ==
    /\ Running
    /\ brush_size' = value
    /\ Done("set_brush_size", NoPlace, Zero)
    /\ UNCHANGED <<canvasVars, diffusionVars, flowVars, image, raised>>

\* Visualizer.add_brush_stroke(x, y), (x, y) the canvas cell under the mouse
add_brush_stroke(x, y) ==
    /\ Running
    /\ red' = add_brush_stroke_channel(red, x, y, brush_size,
                                       RMul(brush_color[1], brush_intensity), width, height)
    /\ green' = add_brush_stroke_channel(green, x, y, brush_size,
                                         RMul(brush_color[2], brush_intensity), width, height)
    /\ blue' = add_brush_stroke_channel(blue, x, y, brush_size,
                                        RMul(brush_color[3], brush_intensity), width, height)
    /\ Done("add_brush_stroke", NoPlace, Zero)
    /\ UNCHANGED <<width, height, barriers, diffusionVars, flowVars, brush_size, image, raised>>

\* Visualizer.remove_barrier_stroke(x, y): the first touched cell calls
\* self.canvas.remove_barrier, an attribute Canvas does not have
remove_barrier_stroke(x, y) ==
    /\ Running
    /\ raised' = IF stroke_cells(x, y, brush_size, width, height) # {}
                 THEN "AttributeError" ELSE "none"
    /\ Done("remove_barrier_stroke", NoPlace, Zero)
    /\ UNCHANGED <<canvasVars, diffusionVars, flowVars, brush_size, image>>

\* Visualizer.add_barrier_stroke(x, y): canvas.add_barrier on every touched cell
add_barrier_stroke(x, y) ==
    /\ Running
    /\ barriers' = [c \in Cells(width, height) |->
                        IF c \in stroke_cells(x, y, brush_size, width, height)
                        THEN add_barrier_mask(barriers, c[2], c[1], width, height)[c]
                        ELSE barriers[c]]
    /\ Done("add_barrier_stroke", NoPlace, Zero)
    /\ UNCHANGED <<width, height, red, green, blue, diffusionVars, flowVars, brush_size,
                   image, raised>>

\* simulation_step of main.py with the sliders at `sliders`: the three assignments, then
\* diffusion_sim.step(), then fluid_flow_sim.step() (dt = 1.0) unless the first raised
simulation_step(sliders) ==
    LET has(ch) == ch \in DOMAIN diffusion_rates
        complete == has("red") /\ has("green") /\ has("blue")
        new(data, ch) == diffusion_channel(data, diffusion_rates[ch], mixing_kernel,
                                           color_decay, width, height)
        red1 == IF has("red") THEN new(red, "red") ELSE red
        green1 == IF has("red") /\ has("green") THEN new(green, "green") ELSE green
        blue1 == IF complete THEN new(blue, "blue") ELSE blue
    IN
    /\ Running
    /\ diffusion_rate' = sliders.diffusion
    /\ gravity' = sliders.gravity
    /\ viscosity' = sliders.viscosity
    /\ raised' = IF complete THEN "none" ELSE "KeyError"
    /\ u' = IF complete THEN step_u(u, barriers, diffusion, viscosity', width, height) ELSE u
    /\ v' = IF complete
            THEN step_v(v, barriers, diffusion, viscosity', gravity', width, height)
            ELSE v
    /\ red' = IF complete THEN step_channel(red1, u', v', One, width, height) ELSE red1
    /\ green' = IF complete THEN step_channel(green1, u', v', One, width, height) ELSE green1
    /\ blue' = IF complete THEN step_channel(blue1, u', v', One, width, height) ELSE blue1
    /\ Done("simulation_step", NoPlace, One)
    /\ UNCHANGED <<width, height, barriers, diffusion_rates, color_decay, mixing_strength,
                   mixing_kernel, diffusion, brush_size, image>>

Next ==
    \/ clear
    \/ \E x \in -1 .. width, y \in -1 .. height, s \in Sources :
            add_color_source(x, y, s[1], s[2])
    \/ \E x \in -1 .. width, y \in -1 .. height : add_barrier(x, y)
    \/ get_color_image
    \/ DiffusionSimulator_step
    \/ \E arg \in RateDicts : set_diffusion_rates(arg)
    \/ \E decay \in Decays : set_color_decay(decay)
    \/ \E strength \in Strengths : set_mixing_strength(strength)
    \/ \E dt \in Dts : FluidFlowSimulator_step(dt)
    \/ \E value \in Viscosities : set_viscosity(value)
    \/ \E value \in VelocityDiffusions : set_diffusion(value)
    \/ \E value \in Gravities : set_gravity(value)
    \/ \E value \in BrushSizes : set_brush_size(value)
    \/ \E x \in 0 .. width - 1, y \in 0 .. height - 1 : add_brush_stroke(x, y)
    \/ \E x \in 0 .. width - 1, y \in 0 .. height - 1 : remove_barrier_stroke(x, y)
    \/ \E x \in 0 .. width - 1, y \in 0 .. height - 1 : add_barrier_stroke(x, y)
    \/ \E sliders \in Sliders : simulation_step(sliders)

Spec == Init /\ [][Next]_vars


----------------------------------------------------------------------------
(* advect as a function of its arguments *)

\* an array with the value k on the cells of S and 0 elsewhere
lit(w, h, S, k) == [c \in Cells(w, h) |-> IF c \in S THEN k ELSE Zero]

\* channel contents: uniform, one row, one column or one cell lit
Levels == {One, Q(1, 2)}
Patterns(w, h) ==
    {lit(w, h, Cells(w, h), k) : k \in Levels \cup {Zero}}
        \cup {lit(w, h, {c \in Cells(w, h) : c[1] = y}, k) : y \in 0 .. h - 1, k \in Levels}
        \cup {lit(w, h, {c \in Cells(w, h) : c[2] = x}, One) : x \in 0 .. w - 1}
        \cup {lit(w, h, {c}, One) : c \in Cells(w, h)}

AdvectSizes == {<<2, 2>>, <<3, 2>>, <<4, 4>>}
Speeds == {Zero, One, R(-1), Q(1, 2)}
AdvectDts == {One, Q(1, 2), R(2)}

QuietFlow == [viscosity |-> Zero, diffusion |-> Zero, gravity |-> Zero]
DefaultDiffusion == [diffusion_rates |-> <<>>, color_decay |-> Zero, mixing_strength |-> Zero]

\* the arguments d_prev (held in red), u, v of one call of advect
InitAdvect ==
    \E size \in AdvectSizes, su \in Speeds, sv \in Speeds :
        \E r \in Patterns(size[1], size[2]) :
            Constructed(size, r, zeros(size[1], size[2]), zeros(size[1], size[2]),
                        lit(size[1], size[2], Cells(size[1], size[2]), su),
                        lit(size[1], size[2], Cells(size[1], size[2]), sv),
                        DefaultDiffusion, QuietFlow)

\* self.advect(self.canvas.red, red_prev, u, v, dt)
advect_red(dt) ==
    /\ op.name = "init"
    /\ red' = advect(red, u, v, dt, width, height)
    /\ Done("advect", NoPlace, dt)
    /\ UNCHANGED <<width, height, green, blue, barriers, diffusionVars, flowVars,
                   brush_size, image, raised>>

NextAdvect == \E dt \in AdvectDts : advect_red(dt)

SpecAdvect == InitAdvect /\ [][NextAdvect]_vars

----------------------------------------------------------------------------
(* DiffusionSimulator.step as a function of the canvas and the simulator's fields *)

DiffuseSizes == {<<2, 2>>, <<3, 2>>, <<3, 3>>}

DiffuseArgs ==
    { [diffusion_rates |-> rates, color_decay |-> decay, mixing_strength |-> Zero] :
        rates \in { <<>>,
                    << [c \in ChannelSet |-> IF c = "red" THEN Q(1, 4) ELSE R(2)] >> },
        decay \in {Zero, Q(1, 2), One} }

DiffuseStrengths == {Zero, Q(1, 4), Q(1, 2)}

\* a 10x10 canvas, all zero but red 1.0 at (5, 5), and a simulator constructed with
\* diffusion rate 0.1 on every channel, mixing_strength = 0 and color_decay = 0
Scenario10 ==
    Constructed(<<10, 10>>, lit(10, 10, {<<5, 5>>}, One), zeros(10, 10), zeros(10, 10),
                zeros(10, 10), zeros(10, 10),
                [diffusion_rates |-> << [c \in ChannelSet |-> Q(1, 10)] >>,
                 color_decay |-> Zero, mixing_strength |-> Zero],
                QuietFlow)

InitDiffuse ==
    \/ Scenario10
    \/ \E size \in DiffuseSizes, da \in DiffuseArgs :
        \E r \in Patterns(size[1], size[2]) \cup {lit(size[1], size[2], Cells(size[1], size[2]), Q(1, 3))} :
            Constructed(size, r, r, zeros(size[1], size[2]),
                        zeros(size[1], size[2]), zeros(size[1], size[2]), da, QuietFlow)

\* one step, after any number of set_mixing_strength calls
NextDiffuse ==
    \/ op.name # "diffusion_step" /\ DiffusionSimulator_step
    \/ \E strength \in DiffuseStrengths :
            op.name # "diffusion_step" /\ set_mixing_strength(strength)

SpecDiffuse == InitDiffuse /\ [][NextDiffuse]_vars


----------------------------------------------------------------------------
(* Properties *)

InUnit(a) == RLe(Zero, a) /\ RLe(a, One)

ColoursInRange ==
    \A c \in Cells(width, height) : InUnit(red[c]) /\ InUnit(green[c]) /\ InUnit(blue[c])

AllZero(f) == \A c \in DOMAIN f : f[c] = Zero
Uniform(f, k) == \A c \in DOMAIN f : f[c] = k

\* C1 (clamp invariant): when a Diffusion Step or a Flow Step has run to its end, every
\* cell of red, green and blue lies in [0, 1], whatever edits and parameter changes
\* came before it.
C1_ClampInvariant ==
    (op.name \in {"diffusion_step", "flow_step"} /\ raised = "none") => ColoursInRange

\* a Flow Step has just brought a cell that a colour source had raised to 2.0 back to 1.0,
\* with the fluid moving
C1_Witness ==
    /\ op.name = "flow_step"
    /\ raised = "none"
    /\ \E c \in Cells(width, height) : red[c] = One /\ green[c] = Q(1, 2)
    /\ ~AllZero(v)

\* C2 (zero-velocity advection is the identity): with u = v = 0 at every cell, advect
\* writes back the pre-advection value at every cell, last row and last column included.
C2_ZeroVelocityAdvectionIsIdentity ==
    [][(op'.name = "advect" /\ AllZero(u) /\ AllZero(v)) => red' = red]_vars

\* C3 (barrier absorption): at the end of every Flow Step u and v are 0 at every cell
\* whose barrier flag is 1.
C3_BarrierAbsorption ==
    op.name = "flow_step" =>
        \A c \in Cells(width, height) : barriers[c] = One => (u[c] = Zero /\ v[c] = Zero)

\* a Flow Step has run with gravity on, a barrier cell on the canvas and the fluid
\* moving at a free cell
C3_Witness ==
    /\ op.name = "flow_step"
    /\ gravity # Zero
    /\ \E c \in Cells(width, height) : barriers[c] = One
    /\ \E c \in Cells(width, height) : barriers[c] = Zero /\ v[c] # Zero

\* C4 (boundary no-op): add_color_source and add_barrier with (x, y) off the canvas,
\* negative coordinates included, raise nothing and leave red, green, blue, barriers,
\* u and v as they were.
C4_BoundaryNoOp ==
    [][(op'.name \in {"add_color_source", "add_barrier"} /\ op'.at \in {"negative", "beyond"})
        => (UNCHANGED <<red, green, blue, barriers, u, v>> /\ raised' = "none")]_vars

\* add_color_source has just run with a negative coordinate on a canvas that holds
\* colour and a barrier
C4_Witness ==
    /\ op.name = "add_color_source"
    /\ op.at = "negative"
    /\ ~AllZero(red)
    /\ ~AllZero(barriers)

\* the 4x4 scenario: v = 1 and u = 0 everywhere, red 1.0 on row 0 and 0 elsewhere, and
\* the step taken is one advect pass over red with dt = 1
C5_Scenario ==
    /\ width = 4 /\ height = 4
    /\ AllZero(u)
    /\ Uniform(v, One)
    /\ red = lit(4, 4, {c \in Cells(4, 4) : c[1] = 0}, One)
    /\ op'.name = "advect"
    /\ op'.dt = One

RECURSIVE RSum(_, _)
RSum(S, f) ==
    IF S = {} THEN Zero
    ELSE LET c == CHOOSE c \in S : TRUE IN RAdd(f[c], RSum(S \ {c}, f))

\* the 3x3 neighbourhood of (5, 5) and its four axis neighbours
Hood55 == (4 .. 6) \X (4 .. 6)
Axis55 == {<<4, 5>>, <<6, 5>>, <<5, 4>>, <<5, 6>>}

\* C6 (diffusion scenario): on the 10x10 canvas with red 1.0 at (5, 5), one step of a
\* simulator constructed with rate 0.1, mixing_strength = 0 and color_decay = 0 leaves
\* red at (5, 5) below 1.0, red at the four axis neighbours above 0, the sum of red over
\* the 3x3 neighbourhood equal to 1.0 and no red outside the neighbourhood.
C6_DiffusionScenario ==
    (width = 10 /\ height = 10 /\ op.name = "diffusion_step" /\ nOps = 1) =>
        /\ RLt(red[<<5, 5>>], One)
        /\ \A c \in Axis55 : RLt(Zero, red[c])
        /\ RSum(Hood55, red) = One
        /\ \A c \in Cells(10, 10) \ Hood55 : red[c] = Zero

\* C7 (diffusion on a uniform field): a channel that holds the same k in [0, 1] at every
\* cell holds k * (1 - color_decay) at every cell after one step, for color_decay in
\* [0, 1], every rate and every mixing kernel of the simulator.
C7_UniformFieldDecaysOnly ==
    [][(op'.name = "diffusion_step" /\ raised' = "none" /\ InUnit(color_decay)) =>
        /\ (Uniform(red, red[<<0, 0>>]) /\ InUnit(red[<<0, 0>>]))
              => Uniform(red', RMul(red[<<0, 0>>], RSub(One, color_decay)))
        /\ (Uniform(green, green[<<0, 0>>]) /\ InUnit(green[<<0, 0>>]))
              => Uniform(green', RMul(green[<<0, 0>>], RSub(One, color_decay)))
        /\ (Uniform(blue, blue[<<0, 0>>]) /\ InUnit(blue[<<0, 0>>]))
              => Uniform(blue', RMul(blue[<<0, 0>>], RSub(One, color_decay)))]_vars

\* a step has taken a uniform 1/3 to a uniform 1/6 (color_decay = 1/2), under a mixing
\* kernel that set_mixing_strength produced
C7_Witness ==
    /\ op.name = "diffusion_step"
    /\ raised = "none"
    /\ color_decay = Q(1, 2)
    /\ Uniform(red, Q(1, 6))
    /\ mixing_kernel = strength_mixing_kernel(Q(1, 4))

\* C8 as stated: when add_color_source, clear, a Diffusion Step or a Flow Step returns,
\* every cell of red, green and blue lies in [0, 1].
C8_ColourRangeAfterEveryMutation ==
    (op.name \in {"add_color_source", "clear", "diffusion_step", "flow_step"}
        /\ raised = "none") => ColoursInRange

\* C8 (amended): when clear, add_brush_stroke, a Diffusion Step or a Flow Step returns,
\* every cell of red, green and blue lies in [0, 1]; add_color_source does not clamp.
C8_ColourRangeAfterClampingOperations ==
    (op.name \in {"clear", "add_brush_stroke", "diffusion_step", "flow_step"}
        /\ raised = "none") => ColoursInRange

\* a brush stroke has just clipped a cell that add_color_source had raised to 2.0
C8_Witness ==
    /\ op.name = "add_brush_stroke"
    /\ nOps = 2
    /\ \E c \in Cells(width, height) : red[c] = One /\ green[c] = Q(1, 2)

\* p is the integer part of clamp(value, 0, 1) * 255
Truncated(p, value) ==
    LET cv == RClip(value, Zero, One)
    IN p \in 0 .. 255 /\ p * cv[2] <= 255 * cv[1] /\ 255 * cv[1] < (p + 1) * cv[2]

\* p is clamp(value, 0, 1) * 255 rounded to the nearest integer
Rounded(p, value) ==
    LET cv == RClip(value, Zero, One)
    IN /\ p \in 0 .. 255
       /\ 2 * p * cv[2] <= 2 * 255 * cv[1] + cv[2]
       /\ 2 * 255 * cv[1] + cv[2] < 2 * (p + 1) * cv[2]

\* C9 as stated: get_color_image returns round(clamp(value, 0, 1) * 255) for every cell
\* and channel and changes no array.
C9_ImageRounds ==
    [][op'.name = "get_color_image" =>
        /\ \A c \in Cells(width, height) :
                /\ Rounded(image'[c][1], red[c])
                /\ Rounded(image'[c][2], green[c])
                /\ Rounded(image'[c][3], blue[c])
        /\ UNCHANGED <<red, green, blue, barriers, u, v>>]_vars

\* C9 (amended): get_color_image returns the integer part of clamp(value, 0, 1) * 255
\* (0.5 -> 127) for every cell and channel and changes no array.
C9_ImageTruncates ==
    [][op'.name = "get_color_image" =>
        /\ DOMAIN image' = Cells(width, height)
        /\ \A c \in Cells(width, height) :
                /\ Truncated(image'[c][1], red[c])
                /\ Truncated(image'[c][2], green[c])
                /\ Truncated(image'[c][3], blue[c])
        /\ UNCHANGED <<red, green, blue, barriers, u, v>>]_vars

\* an image has been taken of a canvas with a cell above 1, a cell at 0.5 and a
\* negative cell
C9_Witness ==
    /\ op.name = "get_color_image"
    /\ \E c \in Cells(width, height) :
            red[c] = R(2) /\ green[c] = Q(1, 2) /\ image[c][1] = 255 /\ image[c][2] = 127
    /\ \E c \in Cells(width, height) : blue[c] = Q(-1, 2) /\ image[c][3] = 0

\* C10 (removeBarrier): a remove-barrier stroke completes without error.
C10_RemoveBarrierStrokeCompletes ==
    op.name = "remove_barrier_stroke" => raised = "none"

\* the result of one tick on a channel when the Diffusion Step uses `rate` and the Flow
\* Step uses the velocity field of the state after the tick
TickWith(data, rate) ==
    step_channel(diffusion_channel(data, rate, mixing_kernel, color_decay, width, height),
                 u', v', One, width, height)

\* C11 (live parameter tuning): the slider values simulation_step assigns at the top of
\* a tick are the values the Diffusion Step and the Flow Step of that tick use: every
\* channel is diffused with the diffusion slider's rate and the velocity is updated with
\* the viscosity and gravity sliders' values.
C11_SliderValuesAreUsed ==
    [][(op'.name = "simulation_step" /\ raised' = "none") =>
        /\ red' = TickWith(red, diffusion_rate')
        /\ green' = TickWith(green, diffusion_rate')
        /\ blue' = TickWith(blue, diffusion_rate')
        /\ v' = step_v(v, barriers, diffusion, viscosity', gravity', width, height)]_vars

BarriersBinary == \A c \in DOMAIN barriers : barriers[c] \in {Zero, One}

\* C12 (barrier mask frame): every barrier cell is 0 or 1 in every state; every operation
\* other than the add-barrier operations leaves every barrier cell unchanged (clear,
\* add_color_source, get_color_image, the Diffusion Step and the Flow Step among them);
\* clear sets every colour cell to 0 and leaves u and v unchanged.
C12_BarrierMaskFrame ==
    [][/\ BarriersBinary /\ BarriersBinary'
       /\ op'.name \notin {"add_barrier", "add_barrier_stroke"} => barriers' = barriers
       /\ op'.name = "clear" =>
            /\ AllZero(red') /\ AllZero(green') /\ AllZero(blue')
            /\ u' = u /\ v' = v]_vars

\* a clear has run on a canvas that holds a barrier and a moving fluid
C12_Witness ==
    /\ op.name = "clear"
    /\ ~AllZero(barriers)
    /\ ~AllZero(v)
    /\ AllZero(red) /\ AllZero(green) /\ AllZero(blue)

\* C13 (mixing stencil): in every state the mixing kernel has centre
\* 1 - 4 * mixing_strength, the four edge neighbours mixing_strength and the diagonals 0.
C13_KernelMatchesStrength ==
    \A i \in 1 .. 3, j \in 1 .. 3 :
        mixing_kernel[i][j] =
            IF i = 2 /\ j = 2 THEN RSub(One, RMul(R(4), mixing_strength))
            ELSE IF i = 2 \/ j = 2 THEN mixing_strength
            ELSE Zero

\* C14 (no error path): every Diffusion Step, alone or inside a tick, runs to completion
\* without raising.
C14_DiffusionStepCompletes ==
    op.name \in {"diffusion_step", "simulation_step"} => raised = "none"

KernelIsAverage ==
    /\ \A i \in 1 .. 3, j \in 1 .. 3 : RLe(Zero, mixing_kernel[i][j])
    /\ RSum((1 .. 3) \X (1 .. 3),
            [k \in (1 .. 3) \X (1 .. 3) |-> mixing_kernel[k[1]][k[2]]]) = One

\* the sum of a channel over the whole grid, row by row
GridSum(data) ==
    RSum(0 .. height - 1, [y \in 0 .. height - 1 |-> RSum({y} \X (0 .. width - 1), data)])

Conserved(data, new_data, ch) ==
    (/\ ch \in DOMAIN diffusion_rates
     /\ RLe(Zero, diffusion_rates[ch]) /\ RLe(diffusion_rates[ch], Q(1, 4))
     /\ \A c \in DOMAIN data : InUnit(data[c]))
        => GridSum(new_data) = GridSum(data)

\* C15 (conservation): with color_decay = 0, a rate in [0, 0.25] and a mixing kernel of
\* non-negative weights that sum to 1, one Diffusion Step leaves the sum over the whole
\* grid of a channel with values in [0, 1] unchanged.
C15_DiffusionConservesSum ==
    [][(op'.name = "diffusion_step" /\ raised' = "none" /\ color_decay = Zero
            /\ KernelIsAverage) =>
        /\ Conserved(red, red', "red")
        /\ Conserved(green, green', "green")
        /\ Conserved(blue, blue', "blue")]_vars

\* a step without decay, with rate 0.25 and an averaging kernel, has spread a red field
\* that is not uniform
C15_Witness ==
    /\ op.name = "diffusion_step" /\ raised = "none"
    /\ color_decay = Zero /\ KernelIsAverage
    /\ diffusion_rates["red"] = Q(1, 4)
    /\ \E c, d \in DOMAIN red : red[c] # red[d] /\ RLt(Zero, red[c]) /\ RLt(red[c], Q(1, 2))

\* C16 (horizontal velocity): u is 0 at every cell in every state.
C16_HorizontalVelocityIsZero == AllZero(u)

\* three flow steps under gravity have set the fluid moving vertically
C16_Witness ==
    /\ op.name \in {"flow_step", "simulation_step"} /\ raised = "none"
    /\ nOps = MaxOps
    /\ ~AllZero(v)
    /\ AllZero(u)

====
